---- MODULE Spec2Model ----
(***************************************************************************)
(* Model of roslibpy's ROS Bridge client (src/src/roslibpy/comm.py):       *)
(* RosBridgeProtocol (one engine instance per websocket connection) and    *)
(* RosBridgeClientFactory (reconnecting factory holding the live engine).  *)
(* Exceptions follow Python 2 semantics, where StandardError is a builtin. *)
(***************************************************************************)
EXTENDS Integers, Sequences, FiniteSets, TLC

\* ------------------------------------------------------------ bounds
MaxProto == 2       \* engine instances (connections) ever built
MaxId == 2          \* distinct service request ids
MaxRequests == 2    \* send_ros_service_request registrations ever made
MaxReady == 2       \* callbacks ever passed to on_ready

Protos == 1..MaxProto
Ids == 1..MaxId

\* ------------------------------------------------------------ values
\* A continuation passed to send_ros_service_request: None, or a callable.
\* req is the serial number of the request it was passed with; does says
\* what the callable does when invoked ("resend" calls
\* send_ros_service_request again with the same id, "respond" feeds a
\* service_response for the same id to onMessage).
NoCont == [req |-> 0, kind |-> "None", does |-> "nothing"]

Cont(n, k, d) == [req |-> n, kind |-> k, does |-> d]

\* An entry of _pending_service_requests: the tuple (callback, errback);
\* present = FALSE is what dict.get(request_id, None) yields for a missing id.
NoEntry == [present |-> FALSE, callback |-> NoCont, errback |-> NoCont]

Entry(cb, eb) == [present |-> TRUE, callback |-> cb, errback |-> eb]

EmptyRegistry == [x \in Ids |-> NoEntry]

OpNames == {"publish", "service_response", "call_service", "status"}

NoHandler == ""

CustomHandlers == {"h1", "h2"}

\* _message_handlers as built by __init__
BuiltinHandlers ==
    [o \in OpNames |->
        CASE o = "publish" -> "_handle_publish"
          [] o = "service_response" -> "_handle_service_response"
          [] o = "call_service" -> "_handle_service_request"
          [] OTHER -> NoHandler]

\* Message: a mapping of keys to values; 'k in message' and message[k]
Has(m, k) == k \in DOMAIN m

\* JSON values of the field result are kept as their JSON literals.
ResultLiterals == {"true", "false", "0"}

ServiceResponseMessages ==
    {[op |-> "service_response", id |-> x, result |-> r, values |-> "v"] :
        x \in Ids, r \in ResultLiterals}
    \cup {[op |-> "service_response", id |-> x, values |-> "v"] : x \in Ids}
    \cup {[op |-> "service_response", id |-> x, result |-> "false"] : x \in Ids}
    \cup {[op |-> "service_response", values |-> "v"]}

InboundMessages ==
    ServiceResponseMessages
    \cup {[op |-> "publish", topic |-> "/t", msg |-> "m"]}
    \cup {[op |-> "call_service", service |-> "/s", id |-> 1],
          [op |-> "call_service", id |-> 1]}
    \cup {[op |-> "status"], [id |-> 1]}

\* An inbound websocket frame: isBinary, and the payload, which either is a
\* UTF-8 JSON object (wellFormed, decoding to msg) or is not.
Frames ==
    {[isBinary |-> FALSE, wellFormed |-> TRUE, msg |-> m] : m \in InboundMessages}
    \cup {[isBinary |-> FALSE, wellFormed |-> FALSE, msg |-> [op |-> "status"]]}
    \cup {[isBinary |-> TRUE, wellFormed |-> w, msg |-> [op |-> "publish", topic |-> "/t", msg |-> "m"]] :
            w \in BOOLEAN}

\* ------------------------------------------------------------ state
VARIABLES
    lifecycle,       \* connection lifecycle seen by the factory callbacks
    cur,             \* engine of the connector's current connection, 0 if none
    connectDue,      \* a connection attempt is scheduled (first connect or retry)
    continueTrying,  \* ReconnectingClientFactory.continueTrying
    protoCount,      \* engine instances built so far
    tstate,          \* websocket state of each engine
    _proto,          \* RosBridgeClientFactory._proto, 0 for None
    readyOnce,       \* one-shot listeners of the 'ready' channel, in order
    readyCount,      \* callbacks passed to on_ready so far
    readyInvoked,    \* times each on_ready callback has been invoked
    _pending_service_requests,  \* per engine: id -> entry
    _message_handlers,          \* per engine: op -> handler
    call,            \* position of the caller inside send_ros_service_request
    serial,          \* registrations made so far
    registered,      \* per engine and id: registrations made
    invoked,         \* per engine and id: continuations invoked
    awaiting,        \* per engine and id: the frame of a request made with a
                     \* free id was submitted and no response was processed since
    last             \* what the last step did

vars == <<lifecycle, cur, connectDue, continueTrying, protoCount, tstate, _proto,
          readyOnce, readyCount, readyInvoked, _pending_service_requests,
          _message_handlers, call, serial, registered, invoked, awaiting, last>>

factoryVars == <<lifecycle, cur, connectDue, continueTrying, protoCount, tstate, _proto>>

readyVars == <<readyOnce, readyCount, readyInvoked>>

engineVars == <<_pending_service_requests, _message_handlers>>

historyVars == <<serial, registered, invoked, awaiting>>

IdleCall == [pc |-> "idle", p |-> 0, id |-> 0, enc |-> TRUE, clean |-> TRUE]

\* The record of one step: the operation, the engine it ran on, its input,
\* the exception it raised ("none" if it returned), whether it handed a
\* frame to the transport, and the callables it invoked, in order.
Step(o, p, a, e, f, t) ==
    [op |-> o, p |-> p, arg |-> a, err |-> e, framed |-> f, trace |-> t]

NoArg == [none |-> TRUE]

Init ==
    /\ lifecycle = "Disconnected"
    /\ cur = 0
    /\ connectDue = TRUE
    /\ continueTrying = TRUE
    /\ protoCount = 0
    /\ tstate = [p \in Protos |-> "NONE"]
    /\ _proto = 0
    /\ readyOnce = <<>>
    /\ readyCount = 0
    /\ readyInvoked = [c \in 1..MaxReady |-> 0]
    /\ _pending_service_requests = [p \in Protos |-> EmptyRegistry]
    /\ _message_handlers = [p \in Protos |-> BuiltinHandlers]
    /\ call = IdleCall
    /\ serial = 0
    /\ registered = [p \in Protos |-> [x \in Ids |-> 0]]
    /\ invoked = [p \in Protos |-> [x \in Ids |-> 0]]
    /\ awaiting = [p \in Protos |-> [x \in Ids |-> FALSE]]
    /\ last = Step("init", 0, NoArg, "none", FALSE, <<>>)

\* ------------------------------------------------------------ events of a step
HandlerEv(h, message) == [ev |-> "handler", who |-> h, arg |-> message]

ContEv(c, payload) == [ev |-> "cont", who |-> c, arg |-> payload]

EmitEv(channel, payload) == [ev |-> "emit", who |-> channel, arg |-> payload]

ReadyEv(cb, p) == [ev |-> "ready_cb", who |-> cb, arg |-> p]

\* ------------------------------------------------------------ event emitter
\* EventEmitterMixin.once(channel, callback) on the 'ready' channel
Once(listeners, cb) == Append(listeners, cb)

\* EventEmitterMixin.emit('ready', proto): every listener, in registration order
EmitReady(listeners, p) == [i \in DOMAIN listeners |-> ReadyEv(listeners[i], p)]

\* the one-shot listeners left on the channel after an emit
AfterEmit(listeners) == <<>>

\* the invocation counts after the callbacks of trace t ran
CountReady(counts, t) ==
    [c \in DOMAIN counts |->
        counts[c] + Cardinality({i \in DOMAIN t : t[i].ev = "ready_cb" /\ t[i].who = c})]

\* ------------------------------------------------------------ factory
\* on_ready that never takes the immediate branch
OnReadyImmediate_Never(proto) == FALSE

\* RosBridgeClientFactory.on_ready: 'if self._proto'
OnReadyImmediate(proto) == proto # 0

\* RosBridgeClientFactory.ready: the handle after ready(proto)
ReadyHandle(p) == p

\* clientConnectionLost / clientConnectionFailed without 'self._proto = None'
ClearedHandle_Kept == _proto

\* the handle after clientConnectionLost / clientConnectionFailed
ClearedHandle == 0

\* a factory that never schedules a retry
RetryScheduled_Never(trying) == FALSE

\* ReconnectingClientFactory.clientConnectionLost/Failed: retry if continueTrying
RetryScheduled(trying) == trying

on_ready ==
    /\ readyCount < MaxReady
    /\ LET cb == readyCount + 1 IN
        /\ readyCount' = cb
        /\ IF OnReadyImmediate(_proto)
           THEN /\ readyOnce' = readyOnce
                /\ readyInvoked' = CountReady(readyInvoked, <<ReadyEv(cb, _proto)>>)
                /\ last' = Step("on_ready", _proto, [cb |-> cb], "none", FALSE,
                                <<ReadyEv(cb, _proto)>>)
           ELSE /\ readyOnce' = Once(readyOnce, cb)
                /\ readyInvoked' = readyInvoked
                /\ last' = Step("on_ready", 0, [cb |-> cb], "none", FALSE, <<>>)
    /\ UNCHANGED <<factoryVars, engineVars, call, historyVars>>

startedConnecting ==
    /\ lifecycle = "Disconnected"
    /\ connectDue
    /\ lifecycle' = "Connecting"
    /\ connectDue' = FALSE
    /\ last' = Step("startedConnecting", 0, NoArg, "none", FALSE, <<>>)
    /\ UNCHANGED <<cur, continueTrying, protoCount, tstate, _proto, readyVars,
                   engineVars, call, historyVars>>

clientConnectionFailed ==
    /\ lifecycle = "Connecting"
    /\ cur = 0
    /\ lifecycle' = "Disconnected"
    /\ connectDue' = RetryScheduled(continueTrying)
    /\ _proto' = ClearedHandle
    /\ last' = Step("clientConnectionFailed", 0, NoArg, "none", FALSE, <<>>)
    /\ UNCHANGED <<cur, continueTrying, protoCount, tstate, readyVars,
                   engineVars, call, historyVars>>

\* RosBridgeProtocol.__init__, run when the connector builds the protocol
BuildProtocol ==
    /\ lifecycle = "Connecting"
    /\ cur = 0
    /\ protoCount < MaxProto
    /\ LET p == protoCount + 1 IN
        /\ protoCount' = p
        /\ cur' = p
        /\ tstate' = [tstate EXCEPT ![p] = "CONNECTING"]
        /\ _pending_service_requests' =
              [_pending_service_requests EXCEPT ![p] = EmptyRegistry]
        /\ _message_handlers' = [_message_handlers EXCEPT ![p] = BuiltinHandlers]
        /\ last' = Step("__init__", p, NoArg, "none", FALSE, <<>>)
    /\ UNCHANGED <<lifecycle, connectDue, continueTrying, _proto, readyVars,
                   call, historyVars>>

\* RosBridgeProtocol.onOpen -> RosBridgeClientFactory.ready(self)
onOpen ==
    /\ lifecycle = "Connecting"
    /\ cur # 0
    /\ tstate[cur] = "CONNECTING"
    /\ lifecycle' = "Open"
    /\ tstate' = [tstate EXCEPT ![cur] = "OPEN"]
    /\ _proto' = ReadyHandle(cur)
    /\ LET t == EmitReady(readyOnce, cur) IN
        /\ readyInvoked' = CountReady(readyInvoked, t)
        /\ readyOnce' = AfterEmit(readyOnce)
        /\ last' = Step("onOpen", cur, NoArg, "none", FALSE,
                        <<EmitEv("ready", cur)>> \o t)
    /\ UNCHANGED <<cur, connectDue, continueTrying, protoCount, readyCount,
                   engineVars, call, historyVars>>

\* RosBridgeProtocol.onClose: the transport has closed; the engine only logs
onClose ==
    /\ cur # 0
    /\ tstate[cur] \in {"CONNECTING", "OPEN"}
    /\ tstate' = [tstate EXCEPT ![cur] = "CLOSED"]
    /\ lifecycle' = "Closing"
    /\ last' = Step("onClose", cur, NoArg, "none", FALSE, <<>>)
    /\ UNCHANGED <<cur, connectDue, continueTrying, protoCount, _proto, readyVars,
                   engineVars, call, historyVars>>

clientConnectionLost ==
    /\ lifecycle = "Closing"
    /\ lifecycle' = "Disconnected"
    /\ connectDue' = RetryScheduled(continueTrying)
    /\ _proto' = ClearedHandle
    /\ cur' = 0
    /\ last' = Step("clientConnectionLost", cur, NoArg, "none", FALSE, <<>>)
    /\ UNCHANGED <<continueTrying, protoCount, tstate, readyVars,
                   engineVars, call, historyVars>>

\* ReconnectingClientFactory.stopTrying: no further automatic reconnection
stopTrying ==
    /\ continueTrying
    /\ continueTrying' = FALSE
    /\ connectDue' = FALSE
    /\ last' = Step("stopTrying", 0, NoArg, "none", FALSE, <<>>)
    /\ UNCHANGED <<lifecycle, cur, protoCount, tstate, _proto, readyVars,
                   engineVars, call, historyVars>>

\* ------------------------------------------------------------ engine: outbound
\* json.dumps(dict(message)): raises TypeError on a value JSON cannot represent
Encodes(message) == message.enc

\* WebSocketClientProtocol.sendMessage on a transport in state ts: on an open
\* transport the frame is sent; on any other the library either drops the
\* frame silently or raises.
TransportOutcomes(ts) == IF ts = "OPEN" THEN {"sent"} ELSE {"dropped", "raised"}

\* send_ros_message: the try block, and the except clause that logs
SendRosMessageOutcome(message, tr) ==
    IF ~Encodes(message)
    THEN [err |-> "none", framed |-> FALSE, logged |-> "TypeError"]
    ELSE IF tr = "sent"
    THEN [err |-> "none", framed |-> TRUE, logged |-> "none"]
    ELSE IF tr = "raised"
    THEN [err |-> "none", framed |-> FALSE, logged |-> "TransportError"]
    ELSE [err |-> "none", framed |-> FALSE, logged |-> "none"]

\* the engine a caller holds: the one ready() handed out for this connection
Usable(p) == p = cur /\ tstate[p] \in {"OPEN", "CLOSED"}

OutboundMessages == {[enc |-> e] : e \in BOOLEAN}

send_ros_message(p, message) ==
    /\ Usable(p)
    /\ \E tr \in TransportOutcomes(tstate[p]) :
        LET r == SendRosMessageOutcome(message, tr) IN
        last' = Step("send_ros_message", p, [message |-> message, logged |-> r.logged],
                     r.err, r.framed, <<>>)
    /\ UNCHANGED <<factoryVars, readyVars, engineVars, call, historyVars>>

\* register_message_handlers without the occupancy check
RegisterHandlerOutcome_Overwrite(table, operation, handler) ==
    [err |-> "none", table |-> [table EXCEPT ![operation] = handler]]

\* register_message_handlers: the table after the call, and the exception
RegisterHandlerOutcome(table, operation, handler) ==
    IF operation \in DOMAIN table /\ table[operation] # NoHandler
    THEN [err |-> "StandardError", table |-> table]
    ELSE [err |-> "none", table |-> [table EXCEPT ![operation] = handler]]

register_message_handlers(p, operation, handler) ==
    /\ Usable(p)
    /\ LET r == RegisterHandlerOutcome(_message_handlers[p], operation, handler) IN
        /\ _message_handlers' = [_message_handlers EXCEPT ![p] = r.table]
        /\ last' = Step("register_message_handlers", p,
                        [operation |-> operation, handler |-> handler],
                        r.err, FALSE, <<>>)
    /\ UNCHANGED <<factoryVars, readyVars, _pending_service_requests, call, historyVars>>

\* send_ros_service_request that has not registered by the time it transmits
RegisterRequest_NotYet(pend, request_id, callback, errback) == pend

\* send_ros_service_request, line 66: the registry after the assignment
RegisterRequest(pend, request_id, callback, errback) ==
    [pend EXCEPT ![request_id] = Entry(callback, errback)]

\* continuations that will call send_ros_service_request when invoked
Reserved(registry) ==
    Cardinality({px \in Protos \X Ids :
        LET e == registry[px[1]][px[2]] IN
        e.present /\ (e.callback.does = "resend" \/ e.errback.does = "resend")})

ServiceRequestMessages ==
    {[id |-> x, enc |-> e] : x \in Ids, e \in BOOLEAN} \cup {[enc |-> TRUE]}

Callbacks(n) ==
    {NoCont, Cont(n, "callback", "nothing"), Cont(n, "callback", "resend"),
     Cont(n, "callback", "respond")}

Errbacks(n) == {NoCont, Cont(n, "errback", "nothing")}

\* send_ros_service_request that calls the callback before it returns
SendTrace_Eager(callback, errback) ==
    <<ContEv(callback, [ServiceResponse |-> TRUE, values |-> "v"])>>

\* send_ros_service_request, lines 65-71: the callables it invokes; it
\* stores callback and errback and calls neither
SendTrace(callback, errback) == <<>>

\* send_ros_service_request, lines 65-66: read the id, register the pair
send_ros_service_request_register(p, message, callback, errback) ==
    /\ Usable(p)
    /\ call.pc = "idle"
    /\ IF ~Has(message, "id")
       THEN /\ last' = Step("send_ros_service_request", p, [message |-> message],
                            "KeyError", FALSE, <<>>)
            /\ UNCHANGED <<engineVars, call, historyVars>>
       ELSE LET after == RegisterRequest(_pending_service_requests[p], message.id,
                                         callback, errback)
                registry == [_pending_service_requests EXCEPT ![p] = after]
            IN  /\ serial + 1 + Reserved(registry) <= MaxRequests
                /\ _pending_service_requests' = registry
                /\ serial' = serial + 1
                /\ registered' = [registered EXCEPT ![p][message.id] = @ + 1]
                /\ call' = [pc |-> "registered", p |-> p, id |-> message.id,
                            enc |-> Encodes(message),
                            clean |-> /\ ~_pending_service_requests[p][message.id].present
                                      /\ ~awaiting[p][message.id]]
                /\ last' = Step("send_ros_service_request:register", p,
                                [message |-> message], "none", FALSE,
                                SendTrace(callback, errback))
                /\ UNCHANGED <<_message_handlers, invoked, awaiting>>
    /\ UNCHANGED <<factoryVars, readyVars>>

\* send_ros_service_request, lines 68-71: serialize, hand to the transport
TransmitOutcome(enc, tr) ==
    IF ~enc THEN [err |-> "TypeError", framed |-> FALSE]
    ELSE IF tr = "sent" THEN [err |-> "none", framed |-> TRUE]
    ELSE IF tr = "raised" THEN [err |-> "TransportError", framed |-> FALSE]
    ELSE [err |-> "none", framed |-> FALSE]

send_ros_service_request_transmit ==
    /\ call.pc = "registered"
    /\ \E tr \in TransportOutcomes(tstate[call.p]) :
        LET r == TransmitOutcome(call.enc, tr) IN
        /\ awaiting' = IF r.framed /\ call.clean
                       THEN [awaiting EXCEPT ![call.p][call.id] = TRUE]
                       ELSE awaiting
        /\ last' = Step("send_ros_service_request", call.p, [id |-> call.id],
                        r.err, r.framed, <<>>)
    /\ call' = IdleCall
    /\ UNCHANGED <<factoryVars, readyVars, engineVars, serial, registered, invoked>>

\* ------------------------------------------------------------ engine: inbound
\* the outcome of a handler: exception, registry afterwards, callables invoked
Outcome(e, pend, t) == [err |-> e, pend |-> pend, trace |-> t]

\* _handle_publish with channel and payload exchanged
HandlePublish_Exchanged(pend, message) ==
    IF ~Has(message, "topic") \/ ~Has(message, "msg")
    THEN Outcome("KeyError", pend, <<>>)
    ELSE Outcome("none", pend, <<EmitEv(message.msg, message.topic)>>)

\* _handle_publish
HandlePublish(pend, message) ==
    IF ~Has(message, "topic") \/ ~Has(message, "msg")
    THEN Outcome("KeyError", pend, <<>>)
    ELSE Outcome("none", pend, <<EmitEv(message.topic, message.msg)>>)

\* _handle_service_request
HandleServiceRequest(pend, message) ==
    IF ~Has(message, "service")
    THEN Outcome("ValueError", pend, <<>>)
    ELSE Outcome("none", pend, <<EmitEv(message.service, message)>>)

\* the dispatch test written as 'not message["result"]'
IsFailure_Falsy(message) ==
    Has(message, "result") /\ message.result \in {"false", "0"}

\* _handle_service_response, line 104: 'result' in message and message['result'] is False
IsFailure(message) == Has(message, "result") /\ message.result = "false"

\* _handle_service_response, lines 104-109: the continuation selected
Selected(service_handlers, message) ==
    IF IsFailure(message) THEN service_handlers.errback ELSE service_handlers.callback

\* what the selected continuation is called with: message['values'] for the
\* errback, ServiceResponse(message['values']) for the callback
Payload(message) ==
    [ServiceResponse |-> ~IsFailure(message), values |-> message.values]

\* _handle_service_response that clears the whole registry
Consume_All(pend, request_id) == EmptyRegistry

\* _handle_service_response without the del
Consume_Keep(pend, request_id) == pend

\* _handle_service_response, line 102: the registry after the lookup matched
Consume(pend, request_id) == [pend EXCEPT ![request_id] = NoEntry]

\* _handle_service_response
HandleServiceResponse(pend, message) ==
    IF ~Has(message, "id")
    THEN Outcome("KeyError", pend, <<>>)
    ELSE LET service_handlers == pend[message.id] IN
         IF ~service_handlers.present
         THEN Outcome("StandardError", pend, <<>>)
         ELSE LET after == Consume(pend, message.id)
                  chosen == Selected(service_handlers, message)
              IN  IF chosen = NoCont
                  THEN Outcome("none", after, <<>>)
                  ELSE IF ~Has(message, "values")
                  THEN Outcome("KeyError", after, <<>>)
                  ELSE Outcome("none", after, <<ContEv(chosen, Payload(message))>>)

\* handler(message), for the handler found in the table
RunHandler(handler, pend, message) ==
    CASE handler = "_handle_publish" -> HandlePublish(pend, message)
      [] handler = "_handle_service_response" -> HandleServiceResponse(pend, message)
      [] handler = "_handle_service_request" -> HandleServiceRequest(pend, message)
      [] OTHER -> Outcome("none", pend, <<>>)

\* a lookup that confuses call_service and service_response
Lookup_Swapped(table, op) ==
    IF op = "call_service" THEN table["service_response"]
    ELSE IF op = "service_response" THEN table["call_service"]
    ELSE IF op \in DOMAIN table THEN table[op] ELSE NoHandler

\* a lookup that falls back to the publish handler
Lookup_Fallback(table, op) ==
    IF op \in DOMAIN table /\ table[op] # NoHandler THEN table[op] ELSE table["publish"]

\* self._message_handlers.get(op, None)
Lookup(table, op) == IF op \in DOMAIN table THEN table[op] ELSE NoHandler

\* onMessage(payload, isBinary)
OnMessageOutcome(table, pend, frame) ==
    IF frame.isBinary
    THEN Outcome("NotImplementedError", pend, <<>>)
    ELSE IF ~frame.wellFormed
    THEN Outcome("ValueError", pend, <<>>)
    ELSE IF ~Has(frame.msg, "op")
    THEN Outcome("KeyError", pend, <<>>)
    ELSE LET handler == Lookup(table, frame.msg.op) IN
         IF handler = NoHandler
         THEN Outcome("StandardError", pend, <<>>)
         ELSE LET r == RunHandler(handler, pend, frame.msg) IN
              Outcome(r.err, r.pend, <<HandlerEv(handler, frame.msg)>> \o r.trace)

\* the continuations invoked in a step
ContsIn(t) == {i \in DOMAIN t : t[i].ev = "cont"}

Resends(t) == \E i \in ContsIn(t) : t[i].who.does = "resend"

Responds(t) == \E i \in ContsIn(t) : t[i].who.does = "respond"

\* the frame a "respond" continuation feeds to onMessage while it runs
NestedResponse(request_id) ==
    [isBinary |-> FALSE, wellFormed |-> TRUE,
     msg |-> [op |-> "service_response", id |-> request_id, values |-> "v"]]

\* a handler that calls the continuation before it deletes the entry
AtInvocation_BeforeDel(before, consumed) == before

\* _handle_service_response, lines 102-109: the registry a continuation finds
\* when it is called; the del of line 102 has run by then
AtInvocation(before, consumed) == consumed

\* the frame reached _handle_service_response and looked up an id
LooksUp(t, frame) ==
    /\ \E i \in DOMAIN t : t[i].ev = "handler" /\ t[i].who = "_handle_service_response"
    /\ Has(frame.msg, "id")

\* engines that share the registry of the first instance
OwnRegistry_Shared(registry, p) == registry[1]

\* self._pending_service_requests: the dict __init__ gave this instance
OwnRegistry(registry, p) == registry[p]

\* An exception that leaves onMessage unwinds into the transport that
\* delivered the frame (WebSocketClientProtocol, dataReceived): the library
\* either logs it and keeps the session, or drops the connection.
Unwinding(err) == IF err = "none" THEN {"kept"} ELSE {"kept", "dropped"}

onMessage(p, frame) ==
    /\ tstate[p] = "OPEN"
    /\ LET r == OnMessageOutcome(_message_handlers[p],
                                 OwnRegistry(_pending_service_requests, p), frame)
           looked == LooksUp(r.trace, frame)
           again == Resends(r.trace)
           nests == Responds(r.trace)
           n == serial + 1
           found == IF ContsIn(r.trace) = {}
                    THEN r.pend
                    ELSE AtInvocation(_pending_service_requests[p], r.pend)
           inner == IF nests
                    THEN OnMessageOutcome(_message_handlers[p], found,
                                          NestedResponse(frame.msg.id))
                    ELSE Outcome(r.err, found, <<>>)
           pend == IF again
                   THEN RegisterRequest(found, frame.msg.id,
                                        Cont(n, "callback", "nothing"),
                                        Cont(n, "errback", "nothing"))
                   ELSE inner.pend
           trace == r.trace \o inner.trace
       IN
        /\ _pending_service_requests' = [_pending_service_requests EXCEPT ![p] = pend]
        /\ serial' = IF again THEN n ELSE serial
        /\ registered' = IF again
                         THEN [registered EXCEPT ![p][frame.msg.id] = @ + 1]
                         ELSE registered
        /\ invoked' = IF ContsIn(trace) # {}
                      THEN [invoked EXCEPT ![p][frame.msg.id] = @ + Cardinality(ContsIn(trace))]
                      ELSE invoked
        /\ awaiting' = IF looked
                       THEN [awaiting EXCEPT ![p][frame.msg.id] = again]
                       ELSE awaiting
        /\ call' = IF looked /\ call.pc = "registered" /\ call.p = p /\ call.id = frame.msg.id
                   THEN [call EXCEPT !.clean = FALSE]
                   ELSE call
        /\ last' = Step("onMessage", p, frame, inner.err, again, trace)
        /\ \E u \in Unwinding(inner.err) :
              /\ tstate' = IF u = "dropped" THEN [tstate EXCEPT ![p] = "CLOSED"] ELSE tstate
              /\ lifecycle' = IF u = "dropped" /\ p = cur THEN "Closing" ELSE lifecycle
    /\ UNCHANGED <<cur, connectDue, continueTrying, protoCount, _proto, readyVars,
                   _message_handlers>>

\* ------------------------------------------------------------ specification
\* the connection lifecycle as twisted drives it
Lifecycle ==
    \/ startedConnecting
    \/ BuildProtocol
    \/ onOpen
    \/ onClose
    \/ clientConnectionLost

\* frames that carry a service_response
ServiceFrames ==
    {[isBinary |-> FALSE, wellFormed |-> TRUE, msg |-> m] : m \in ServiceResponseMessages}

PlainCallbacks(n) == {NoCont, Cont(n, "callback", "nothing")}

\* service calls: the lifecycle, send_ros_service_request, service responses
EncodableRequests == {m \in ServiceRequestMessages : Encodes(m)}

\* the engine of the first connection: every connection starts from the same
\* __init__, so one engine stands for each
FirstProtocol ==
    /\ protoCount = 0
    /\ BuildProtocol

\* a caller entering send_ros_service_request with at least one continuation
ServiceRequest ==
    \E p \in Protos, m \in EncodableRequests :
        \E cb \in PlainCallbacks(serial + 1), eb \in Errbacks(serial + 1) :
            /\ cb # NoCont \/ eb # NoCont
            /\ send_ros_service_request_register(p, m, cb, eb)

NextService ==
    \/ startedConnecting
    \/ FirstProtocol
    \/ onOpen
    \/ onClose
    \/ clientConnectionLost
    \/ ServiceRequest
    \/ send_ros_service_request_transmit
    \/ \E p \in Protos, f \in ServiceFrames : onMessage(p, f)

SpecService == Init /\ [][NextService]_vars

\* continuations that act when invoked: one engine, requests with both
\* continuations whose callback may send again or feed a nested response,
\* and the responses to them
ActingRequest ==
    \E p \in Protos, m \in EncodableRequests :
        \E cb \in Callbacks(serial + 1), eb \in Errbacks(serial + 1) :
            /\ cb # NoCont
            /\ eb # NoCont
            /\ send_ros_service_request_register(p, m, cb, eb)

NextNested ==
    \/ startedConnecting
    \/ FirstProtocol
    \/ onOpen
    \/ ActingRequest
    \/ send_ros_service_request_transmit
    \/ \E p \in Protos, f \in ServiceFrames : onMessage(p, f)

SpecNested == Init /\ [][NextNested]_vars

\* One event loop owns the engine: send_ros_service_request does not yield
\* between its lines 65 and 71, so nothing else runs until it has returned.
LoopTurn == call.pc = "idle"

\* a caller of send_ros_service_request with a callback and an errback, and
\* a message out of the set msgs
PairedRequest(msgs) ==
    \E p \in Protos, m \in msgs :
        send_ros_service_request_register(p, m, Cont(serial + 1, "callback", "nothing"),
                                          Cont(serial + 1, "errback", "nothing"))

\* service calls on one event loop, with one connection: requests with and
\* without id, encodable or not, and the service responses
NextLoop ==
    \/ LoopTurn /\ startedConnecting
    \/ LoopTurn /\ FirstProtocol
    \/ LoopTurn /\ onOpen
    \/ LoopTurn /\ onClose
    \/ LoopTurn /\ clientConnectionLost
    \/ LoopTurn /\ PairedRequest(ServiceRequestMessages)
    \/ send_ros_service_request_transmit
    \/ LoopTurn /\ \E p \in Protos, f \in ServiceFrames : onMessage(p, f)

SpecLoop == Init /\ [][NextLoop]_vars

\* frames of every routed kind: publish, call_service with and without
\* service, service_response with result true or false
RoutedFrames ==
    {f \in Frames :
        /\ ~f.isBinary
        /\ f.wellFormed
        /\ Has(f.msg, "op")
        /\ f.msg.op \in {"publish", "call_service", "service_response"}
        /\ f.msg.op = "service_response"
           => /\ Has(f.msg, "id")
              /\ Has(f.msg, "values")
              /\ Has(f.msg, "result")
              /\ f.msg.result \in {"true", "false"}}

\* every operation of the client on one event loop, with one connection
NextRegistry ==
    \/ LoopTurn /\ startedConnecting
    \/ LoopTurn /\ FirstProtocol
    \/ LoopTurn /\ onOpen
    \/ LoopTurn /\ onClose
    \/ LoopTurn /\ clientConnectionLost
    \/ LoopTurn /\ on_ready
    \/ LoopTurn /\ \E p \in Protos, m \in OutboundMessages : send_ros_message(p, m)
    \/ LoopTurn /\ \E p \in Protos, o \in OpNames :
                      register_message_handlers(p, o, "h1")
    \/ LoopTurn /\ PairedRequest(EncodableRequests)
    \/ send_ros_service_request_transmit
    \/ LoopTurn /\ \E p \in Protos, f \in RoutedFrames : onMessage(p, f)

SpecRegistry == Init /\ [][NextRegistry]_vars

\* service_response frames that report success
SuccessFrames ==
    {f \in ServiceFrames :
        /\ Has(f.msg, "id")
        /\ Has(f.msg, "values")
        /\ Has(f.msg, "result")
        /\ f.msg.result = "true"}

\* service calls across reconnects, on one event loop: every connection
\* builds its own engine
NextReconnect ==
    \/ LoopTurn /\ startedConnecting
    \/ LoopTurn /\ BuildProtocol
    \/ LoopTurn /\ onOpen
    \/ LoopTurn /\ onClose
    \/ LoopTurn /\ clientConnectionLost
    \/ LoopTurn /\ PairedRequest(EncodableRequests)
    \/ send_ros_service_request_transmit
    \/ LoopTurn /\ \E p \in Protos, f \in SuccessFrames : onMessage(p, f)

SpecReconnect == Init /\ [][NextReconnect]_vars

\* routing: the lifecycle, send_ros_message, the handler table, every frame
NextRouting ==
    \/ Lifecycle
    \/ \E p \in Protos, m \in OutboundMessages : send_ros_message(p, m)
    \/ \E p \in Protos, o \in OpNames, h \in CustomHandlers :
          register_message_handlers(p, o, h)
    \/ \E p \in Protos, f \in Frames : onMessage(p, f)

SpecRouting == Init /\ [][NextRouting]_vars

\* readiness: the lifecycle with failed attempts and stopTrying, and on_ready
NextReady ==
    \/ Lifecycle
    \/ clientConnectionFailed
    \/ stopTrying
    \/ on_ready

SpecReady == Init /\ [][NextReady]_vars

\* the same steps, with the reactor firing the delayed call that the retry
\* scheduled (reactor.callLater in ReconnectingClientFactory.retry)
SpecRetry == Init /\ [][NextReady]_vars /\ WF_vars(startedConnecting)

\* the whole client
Next ==
    \/ NextReady
    \/ \E p \in Protos, m \in OutboundMessages : send_ros_message(p, m)
    \/ \E p \in Protos, o \in OpNames, h \in CustomHandlers :
          register_message_handlers(p, o, h)
    \/ \E p \in Protos, m \in ServiceRequestMessages :
          \E cb \in Callbacks(serial + 1), eb \in Errbacks(serial + 1) :
              send_ros_service_request_register(p, m, cb, eb)
    \/ send_ros_service_request_transmit
    \/ \E p \in Protos, f \in Frames : onMessage(p, f)

Spec == Init /\ [][Next]_vars

\* ------------------------------------------------------------ claims
\* the frame of a step was decoded and carries a service_response with an id
ResponseWithId(frame) ==
    /\ ~frame.isBinary
    /\ frame.wellFormed
    /\ Has(frame.msg, "op")
    /\ frame.msg.op = "service_response"
    /\ Has(frame.msg, "id")

\* the continuations invoked in trace t, in order
ContsOf(t) == SelectSeq(t, LAMBDA e : e.ev = "cont")

\* C1: at-most-once resolution. A service_response whose id is pending
\* invokes at most one continuation, one of the pair registered for the id
\* (exactly one when both are registered and the frame carries values), and
\* removes the id; a service_response whose id is not pending is rejected as
\* unmatched, invokes nothing and changes nothing; an id becomes pending only
\* by a new request; and the continuations invoked for an id never outnumber
\* the requests registered with it.
C1_AtMostOnce ==
    [][ /\ \A p \in Protos, x \in Ids : invoked'[p][x] <= registered'[p][x]
        /\ \A p \in Protos, x \in Ids :
              (/\ ~_pending_service_requests[p][x].present
               /\ _pending_service_requests'[p][x].present)
              => registered'[p][x] = registered[p][x] + 1
        /\ (last'.op = "onMessage" /\ ResponseWithId(last'.arg)) =>
              LET p == last'.p
                  x == last'.arg.msg.id
                  e == _pending_service_requests[p][x]
                  conts == ContsOf(last'.trace)
              IN  IF e.present
                  THEN /\ \/ ~_pending_service_requests'[p][x].present
                          \/ registered'[p][x] = registered[p][x] + 1
                       /\ Len(conts) <= 1
                       /\ \A i \in DOMAIN conts : conts[i].who \in {e.callback, e.errback}
                       /\ (/\ e.callback # NoCont
                           /\ e.errback # NoCont
                           /\ Has(last'.arg.msg, "values")) => Len(conts) = 1
                       /\ invoked'[p][x] = invoked[p][x] + Len(conts)
                  ELSE /\ last'.err = "StandardError"
                       /\ conts = <<>>
                       /\ _pending_service_requests' = _pending_service_requests
                       /\ invoked' = invoked
      ]_vars

\* C1 witness: a second service_response for an id that was requested once
\* and resolved once is rejected as unmatched
C1_Witness ==
    /\ last.op = "onMessage"
    /\ ResponseWithId(last.arg)
    /\ last.err = "StandardError"
    /\ registered[last.p][last.arg.msg.id] = 1
    /\ invoked[last.p][last.arg.msg.id] = 1

\* C2: once the loss of a connection has been processed, no request that was
\* sent on it with an errback is still waiting in the registry of its engine
\* (each was failed through its errback and removed).
C2_DisconnectFailsPending ==
    (last.op = "clientConnectionLost" /\ last.p # 0)
    => \A x \in Ids :
          ~(/\ awaiting[last.p][x]
            /\ _pending_service_requests[last.p][x].present
            /\ _pending_service_requests[last.p][x].errback # NoCont)

\* C3: dispatch rule. For a service_response whose id is pending, the errback
\* is invoked with message.values iff result is present and literally false;
\* otherwise the callback is invoked with ServiceResponse(message.values); if
\* the selected continuation is None nothing is invoked; the entry is
\* consumed in every case (the id is pending afterwards only if the
\* continuation made a new request with it).
C3_DispatchRule ==
    [][ (/\ last'.op = "onMessage"
         /\ ResponseWithId(last'.arg)
         /\ _pending_service_requests[last'.p][last'.arg.msg.id].present)
        => LET m == last'.arg.msg
               e == _pending_service_requests[last'.p][m.id]
               failure == "result" \in DOMAIN m /\ m.result = "false"
               selected == IF failure THEN e.errback ELSE e.callback
               conts == ContsOf(last'.trace)
           IN  /\ \/ ~_pending_service_requests'[last'.p][m.id].present
                  \/ registered'[last'.p][m.id] = registered[last'.p][m.id] + 1
               /\ selected = NoCont => conts = <<>>
               /\ (selected # NoCont /\ "values" \in DOMAIN m) =>
                     conts = <<[ev |-> "cont", who |-> selected,
                                arg |-> [ServiceResponse |-> ~failure, values |-> m.values]]>>
               /\ \A i \in DOMAIN conts : conts[i].who = selected
      ]_vars

\* C3 witness: a response whose result is 0, neither absent nor false, was
\* dispatched to the callback of a pending request
C3_Witness ==
    /\ last.op = "onMessage"
    /\ ResponseWithId(last.arg)
    /\ Has(last.arg.msg, "result")
    /\ last.arg.msg.result = "0"
    /\ \E i \in DOMAIN last.trace :
          last.trace[i].ev = "cont" /\ last.trace[i].who.kind = "callback"

\* C5: send_ros_service_request with an id that is already pending fails and
\* leaves the pending entry in place.
C5_DuplicateIdRejected ==
    [][ (/\ last'.op \in {"send_ros_service_request", "send_ros_service_request:register"}
         /\ "message" \in DOMAIN last'.arg
         /\ Has(last'.arg.message, "id")
         /\ _pending_service_requests[last'.p][last'.arg.message.id].present)
        => /\ last'.err # "none"
           /\ _pending_service_requests' = _pending_service_requests
      ]_vars

\* C9: register-before-transmit. Once the frame of a request has been handed
\* to the transport, and until a service_response for its id is processed,
\* the id is in the registry (for a request whose id was neither pending nor
\* awaited when it was made, and was not answered before its frame went out).
C9_RegisteredBeforeTransmit ==
    \A p \in Protos, x \in Ids :
        awaiting[p][x] => _pending_service_requests[p][x].present

\* C9 witness: a request frame was handed to the transport and its response
\* has not arrived
C9_Witness ==
    /\ last.op = "send_ros_service_request"
    /\ last.framed
    /\ awaiting[last.p][last.arg.id]
    /\ _pending_service_requests[last.p][last.arg.id].present

\* the callbacks waiting on the 'ready' channel
Queued == {readyOnce[i] : i \in DOMAIN readyOnce}

\* the events of trace t of kind k
EventsOf(t, k) == SelectSeq(t, LAMBDA e : e.ev = k)

\* C4: on_ready semantics. A callback passed while the lifecycle is
\* Disconnected or Connecting is queued and not invoked; one passed while a
\* session is Open is invoked inside on_ready with the live engine and is not
\* queued; an Open transition emits 'ready' once, hands the new engine to the
\* callbacks it invokes and leaves the queue empty; every callback passed so
\* far has been invoked exactly once if it is no longer queued and never if it
\* still is.
C4_OnReady ==
    /\ (last.op = "on_ready" /\ lifecycle \in {"Disconnected", "Connecting"})
       => /\ last.trace = <<>>
          /\ readyOnce # <<>>
          /\ readyOnce[Len(readyOnce)] = last.arg.cb
    /\ (last.op = "on_ready" /\ lifecycle = "Open")
       => /\ last.trace = <<ReadyEv(last.arg.cb, cur)>>
          /\ tstate[cur] = "OPEN"
          /\ last.arg.cb \notin Queued
    /\ last.op = "onOpen"
       => /\ EventsOf(last.trace, "emit") = <<EmitEv("ready", cur)>>
          /\ \A i \in DOMAIN last.trace :
                last.trace[i].ev = "ready_cb" => last.trace[i].arg = cur
          /\ tstate[cur] = "OPEN"
    /\ lifecycle = "Open" => readyOnce = <<>>
    /\ Cardinality(Queued) = Len(readyOnce)
    /\ \A c \in 1..MaxReady :
          readyInvoked[c] = IF c <= readyCount /\ c \notin Queued THEN 1 ELSE 0

\* C4 witness: the second connection opened and invoked the one callback
\* queued since the first session; the callback served earlier is not
\* invoked again
C4_Witness ==
    /\ last.op = "onOpen"
    /\ last.p = 2
    /\ Len(EventsOf(last.trace, "ready_cb")) = 1
    /\ readyCount = 2
    /\ readyInvoked[1] = 1
    /\ readyInvoked[2] = 1

\* the frame of the last step was a text frame that decoded to a message
Decoded(step) ==
    /\ step.op = "onMessage"
    /\ ~step.arg.isBinary
    /\ step.arg.wellFormed

\* C6: routing. A text frame that decodes to a message whose op has a handler
\* in the table invokes that handler, once, with that message, and no other
\* handler.
C6_Routing ==
    (/\ Decoded(last)
     /\ Has(last.arg.msg, "op")
     /\ last.arg.msg.op \in DOMAIN _message_handlers[last.p]
     /\ _message_handlers[last.p][last.arg.msg.op] # NoHandler)
    => EventsOf(last.trace, "handler")
          = <<HandlerEv(_message_handlers[last.p][last.arg.msg.op], last.arg.msg)>>

\* C6 witness: a call_service frame was routed to its handler
C6_Witness ==
    /\ Decoded(last)
    /\ Has(last.arg.msg, "op")
    /\ last.arg.msg.op = "call_service"
    /\ last.err = "none"
    /\ EventsOf(last.trace, "handler")
          = <<HandlerEv("_handle_service_request", last.arg.msg)>>

\* C7: no frame is silently dropped. A decoded frame whose op is absent or
\* has no handler raises and invokes nothing; a binary frame raises
\* NotImplementedError and invokes nothing whatever its payload; no other
\* frame raises NotImplementedError.
C7_NoSilentDrop ==
    /\ (/\ Decoded(last)
        /\ \/ ~Has(last.arg.msg, "op")
           \/ _message_handlers[last.p][last.arg.msg.op] = NoHandler)
       => (last.err # "none" /\ last.trace = <<>>)
    /\ (last.op = "onMessage" /\ last.arg.isBinary)
       => (last.err = "NotImplementedError" /\ last.trace = <<>>)
    /\ (last.op = "onMessage" /\ ~last.arg.isBinary)
       => last.err # "NotImplementedError"

\* C7 witness: a status frame arrived while no handler was registered for it
C7_Witness ==
    /\ Decoded(last)
    /\ Has(last.arg.msg, "op")
    /\ last.arg.msg.op = "status"
    /\ _message_handlers[last.p]["status"] = NoHandler
    /\ last.err = "StandardError"

\* C8: one handler per operation. register_message_handlers raises and leaves
\* the table unchanged when the op has a handler, and sets the handler
\* otherwise; the built-in ops keep their built-in handlers; a handler in the
\* table is never replaced.
C8_OneHandlerPerOp ==
    [][ /\ \A p \in Protos, o \in OpNames :
              _message_handlers[p][o] # NoHandler
              => _message_handlers'[p][o] = _message_handlers[p][o]
        /\ \A p \in Protos :
              /\ _message_handlers'[p]["publish"] = "_handle_publish"
              /\ _message_handlers'[p]["service_response"] = "_handle_service_response"
              /\ _message_handlers'[p]["call_service"] = "_handle_service_request"
        /\ last'.op = "register_message_handlers"
           => IF _message_handlers[last'.p][last'.arg.operation] # NoHandler
              THEN /\ last'.err = "StandardError"
                   /\ _message_handlers' = _message_handlers
              ELSE /\ last'.err = "none"
                   /\ _message_handlers'[last'.p][last'.arg.operation] = last'.arg.handler
      ]_vars

\* C8 witness: a second handler for the custom op status was refused
C8_Witness ==
    /\ last.op = "register_message_handlers"
    /\ last.arg.operation = "status"
    /\ last.arg.handler = "h2"
    /\ last.err = "StandardError"
    /\ _message_handlers[last.p]["status"] = "h1"

\* C10: a send_ros_message that handed no frame to the transport raises.
C10_SendReportsFailure ==
    (last.op = "send_ros_message" /\ ~last.framed) => last.err # "none"

\* C11: session handle. _proto is absent whenever the lifecycle is
\* Disconnected or Connecting; an Open transition sets it to the engine of
\* the new connection, which is the engine built last and was never the
\* handle before; every connection-lost and connection-failed event leaves it
\* absent; while a session is Open it is the engine of that session.
C11_SessionHandle ==
    /\ lifecycle \in {"Disconnected", "Connecting"} => _proto = 0
    /\ last.op = "onOpen"
       => /\ _proto = last.p
          /\ _proto = cur
          /\ _proto = protoCount
    /\ last.op \in {"clientConnectionLost", "clientConnectionFailed"} => _proto = 0
    /\ lifecycle = "Open" => (_proto = cur /\ _proto # 0)

\* C11 witness: the second connection opened after the first was lost, and
\* the handle is the second engine
C11_Witness ==
    /\ last.op = "onOpen"
    /\ protoCount = 2
    /\ tstate[1] = "CLOSED"
    /\ _proto = 2

\* C12: whenever on_ready invokes its callback immediately, the engine it
\* hands over has an open transport; a callback passed in the Closing window
\* (after onClose, before clientConnectionLost) is queued.
C12_ReadyOnlyWhenOpen ==
    /\ (last.op = "on_ready" /\ last.trace # <<>>)
       => tstate[last.trace[1].arg] = "OPEN"
    /\ (last.op = "on_ready" /\ lifecycle = "Closing")
       => (last.trace = <<>> /\ last.arg.cb \in Queued)

\* C13: consume before invoke. A service_response whose id is pending
\* invokes at most one continuation in the whole step, whatever that
\* continuation does. If the continuation sends a new request with the same
\* id, the new entry is pending when the handler has returned. If it feeds a
\* nested service_response for the same id to onMessage, the nested frame is
\* rejected as unmatched and invokes nothing. Otherwise the id is no longer
\* pending. The continuations invoked for an id never outnumber the requests
\* registered with it.
C13_ConsumeBeforeInvoke ==
    [][ /\ \A p \in Protos, x \in Ids : invoked'[p][x] <= registered'[p][x]
        /\ (/\ last'.op = "onMessage"
            /\ ResponseWithId(last'.arg)
            /\ _pending_service_requests[last'.p][last'.arg.msg.id].present)
           => LET p == last'.p
                  x == last'.arg.msg.id
                  conts == ContsOf(last'.trace)
                  does == IF conts = <<>> THEN "nothing" ELSE conts[1].who.does
              IN  /\ Len(conts) <= 1
                  /\ does = "resend"
                     => /\ _pending_service_requests'[p][x]
                              = Entry(Cont(serial', "callback", "nothing"),
                                      Cont(serial', "errback", "nothing"))
                        /\ serial' = serial + 1
                        /\ conts[1].who.req < serial'
                  /\ does = "respond"
                     => /\ last'.err = "StandardError"
                        /\ Len(EventsOf(last'.trace, "handler")) = 2
                        /\ ~_pending_service_requests'[p][x].present
                  /\ does = "nothing"
                     => ~_pending_service_requests'[p][x].present
      ]_vars

\* C13 witness: a callback fed a nested service_response for its own id to
\* onMessage; the nested frame was rejected and the callback ran once
C13_Witness ==
    /\ last.op = "onMessage"
    /\ ContsOf(last.trace) # <<>>
    /\ ContsOf(last.trace)[1].who.does = "respond"
    /\ last.err = "StandardError"
    /\ invoked[last.p][last.arg.msg.id] = 1
    /\ registered[last.p][last.arg.msg.id] = 1

\* the frame of step s is one of those an engine rejects: binary,
\* undecodable, op missing or without a handler, call_service without
\* service, service_response whose id is not pending in registry pend
Rejected(s, table, pend) ==
    /\ s.op = "onMessage"
    /\ \/ s.arg.isBinary
       \/ ~s.arg.wellFormed
       \/ ~Has(s.arg.msg, "op")
       \/ table[s.arg.msg.op] = NoHandler
       \/ s.arg.msg.op = "call_service" /\ ~Has(s.arg.msg, "service")
       \/ /\ s.arg.msg.op = "service_response"
          /\ Has(s.arg.msg, "id")
          /\ ~pend[s.arg.msg.id].present

\* a rejected frame raises, changes no registry, and calls nothing but the
\* handler that rejects it
C14_StateIsolated ==
    /\ last'.err # "none"
    /\ _pending_service_requests' = _pending_service_requests
    /\ _message_handlers' = _message_handlers
    /\ readyOnce' = readyOnce
    /\ _proto' = _proto
    /\ EventsOf(last'.trace, "cont") = <<>>
    /\ EventsOf(last'.trace, "emit") = <<>>
    /\ EventsOf(last'.trace, "ready_cb") = <<>>

\* C14: per-frame error isolation. A rejected inbound frame leaves the
\* pending registry, the handler table, the listeners and the session handle
\* unchanged, invokes no continuation, emits on no channel, and leaves the
\* session open, so that the next frame can be delivered to the same engine.
C14_PerFrameIsolation ==
    [][ Rejected(last', _message_handlers[last'.p], _pending_service_requests[last'.p])
        => /\ C14_StateIsolated
           /\ tstate'[last'.p] = "OPEN"
           /\ lifecycle' = "Open"
      ]_vars

\* C15: topic and served-service routing. A publish frame causes exactly one
\* emit, on message.topic with message.msg; a call_service frame with service
\* causes exactly one emit, on message.service with the whole message; a
\* call_service frame without service raises the missing-field error and
\* emits nothing. Neither op changes the pending registry or invokes a
\* continuation.
C15_TopicRouting ==
    [][ (/\ Decoded(last')
         /\ Has(last'.arg.msg, "op")
         /\ last'.arg.msg.op \in {"publish", "call_service"})
        => LET m == last'.arg.msg
               emits == EventsOf(last'.trace, "emit")
           IN  /\ (m.op = "publish" /\ Has(m, "topic") /\ Has(m, "msg"))
                  => (last'.err = "none" /\ emits = <<EmitEv(m.topic, m.msg)>>)
               /\ (m.op = "call_service" /\ Has(m, "service"))
                  => (last'.err = "none" /\ emits = <<EmitEv(m.service, m)>>)
               /\ (m.op = "call_service" /\ ~Has(m, "service"))
                  => (last'.err = "ValueError" /\ emits = <<>>)
               /\ ContsOf(last'.trace) = <<>>
               /\ _pending_service_requests' = _pending_service_requests
               /\ invoked' = invoked
      ]_vars

\* C15 witness: a publish frame was emitted on its topic while a service
\* request was pending
C15_Witness ==
    /\ Decoded(last)
    /\ last.arg.msg.op = "publish"
    /\ EventsOf(last.trace, "emit") = <<EmitEv("/t", "m")>>
    /\ \E x \in Ids : _pending_service_requests[last.p][x].present

\* C16: continuations are never invoked from within send_ros_service_request.
\* A step of send_ros_service_request invokes nothing; a continuation is
\* invoked only by a step that processes a service_response frame with the
\* id the continuation is registered under, and it was registered by a call
\* made in an earlier step that has returned.
C16_NeverSynchronous ==
    [][ /\ last'.op \in {"send_ros_service_request", "send_ros_service_request:register"}
           => last'.trace = <<>>
        /\ last'.op # "onMessage"
           => (ContsOf(last'.trace) = <<>> /\ invoked' = invoked)
        /\ \A i \in DOMAIN ContsOf(last'.trace) :
              LET c == ContsOf(last'.trace)[i] IN
              /\ last'.op = "onMessage"
              /\ ResponseWithId(last'.arg)
              /\ c.who \in {_pending_service_requests[last'.p][last'.arg.msg.id].callback,
                            _pending_service_requests[last'.p][last'.arg.msg.id].errback}
              /\ c.who.req <= serial
              /\ call.pc = "idle"
      ]_vars

\* C16 witness: the continuation of the first request was invoked by a
\* service_response processed after a second request had been made
C16_Witness ==
    /\ last.op = "onMessage"
    /\ ContsOf(last.trace) # <<>>
    /\ ContsOf(last.trace)[1].who.req = 1
    /\ serial = 2
    /\ call.pc = "idle"

\* C17: reconnect lifecycle. Every connection-lost and connection-failed
\* event leaves the handle absent and, unless the factory was told to stop,
\* a retry scheduled; while the factory is Disconnected and has not been
\* told to stop, a connection attempt is due, and the lifecycle eventually
\* re-enters Connecting unless the factory is told to stop; a connection
\* opens only with the handle absent, and a handle that is set is cleared
\* only by the loss of its own connection.
C17_ReconnectLifecycle ==
    /\ [](last.op \in {"clientConnectionLost", "clientConnectionFailed"}
          => (_proto = 0 /\ lifecycle = "Disconnected" /\ connectDue = continueTrying))
    /\ []((lifecycle = "Disconnected" /\ continueTrying) => connectDue)
    /\ [][ /\ last'.op = "onOpen" => (_proto = 0 /\ _proto' = last'.p)
           /\ (_proto # 0 /\ _proto' # _proto)
              => (last'.op = "clientConnectionLost" /\ last'.p = _proto /\ _proto' = 0)
         ]_vars
    /\ ((lifecycle = "Disconnected" /\ continueTrying)
            ~> (lifecycle = "Connecting" \/ ~continueTrying))

\* C17 witness: after the first connection was lost the retry fired and the
\* lifecycle is Connecting again, with the handle absent
C17_Witness ==
    /\ last.op = "startedConnecting"
    /\ protoCount = 1
    /\ tstate[1] = "CLOSED"
    /\ lifecycle = "Connecting"
    /\ continueTrying
    /\ _proto = 0

\* C18: the registry holds an entry only for a request whose frame was handed
\* to the transport. When send_ros_service_request has ended without handing
\* over the frame (the message could not be serialized, or the transport was
\* not open), the registry holds no entry for the id of that request.
C18_NoEntryWithoutFrame ==
    (/\ last.op = "send_ros_service_request"
     /\ "id" \in DOMAIN last.arg
     /\ ~last.framed)
    => ~_pending_service_requests[last.p][last.arg.id].present

\* C19: the pending registry belongs to one engine. Every engine starts with
\* an empty registry and its session opens with it empty; an id is pending on
\* an engine only if it was registered on that engine, and no continuation
\* is held by two engines; a service_response processed by an engine changes
\* no other engine's registry, invokes only continuations of that engine's
\* own entry for the id, and is rejected as unmatched, invoking nothing,
\* when the id is not pending on that engine, whatever earlier engines hold.
C19_RegistryPerEngine ==
    [][ /\ last'.op \in {"__init__", "onOpen"}
           => _pending_service_requests'[last'.p] = EmptyRegistry
        /\ \A p \in Protos, x \in Ids :
              _pending_service_requests'[p][x].present => registered'[p][x] >= 1
        /\ \A p, q \in Protos, x, y \in Ids :
              (/\ p # q
               /\ _pending_service_requests'[p][x].present
               /\ _pending_service_requests'[q][y].present)
              => /\ _pending_service_requests'[p][x].callback
                       # _pending_service_requests'[q][y].callback
                 /\ _pending_service_requests'[p][x].errback
                       # _pending_service_requests'[q][y].errback
        /\ (last'.op = "onMessage" /\ ResponseWithId(last'.arg))
           => LET p == last'.p
                  x == last'.arg.msg.id
                  e == _pending_service_requests[p][x]
                  conts == ContsOf(last'.trace)
              IN  /\ \A q \in Protos \ {p} :
                        _pending_service_requests'[q] = _pending_service_requests[q]
                  /\ IF e.present
                     THEN \A i \in DOMAIN conts : conts[i].who \in {e.callback, e.errback}
                     ELSE /\ last'.err = "StandardError"
                          /\ conts = <<>>
                          /\ invoked' = invoked
                  /\ registered[p][x] = 0 => conts = <<>>
      ]_vars

\* C19 witness: a request sent on the first session is still pending on its
\* engine; the response with its id arrived on the second session and was
\* rejected as unmatched
C19_Witness ==
    /\ last.op = "onMessage"
    /\ last.p = 2
    /\ ResponseWithId(last.arg)
    /\ last.err = "StandardError"
    /\ last.trace = <<HandlerEv("_handle_service_response", last.arg.msg)>>
    /\ awaiting[1][last.arg.msg.id]
    /\ _pending_service_requests[1][last.arg.msg.id].present
    /\ registered[2][last.arg.msg.id] = 0

\* C20: the pending registry changes in two ways only. The entry of id x on
\* engine p changes only when send_ros_service_request on p registers x, to
\* the pair passed to that call, or when p processes a service_response
\* with id x while x is pending, which removes it; every other entry is left
\* as it was, and no other operation changes the registry. A matched
\* response invokes only continuations of the request registered last under
\* its id.
C20_RegistryChanges ==
    [][ /\ \A p \in Protos, x \in Ids :
              _pending_service_requests'[p][x] # _pending_service_requests[p][x]
              => \/ /\ last'.op = "send_ros_service_request:register"
                    /\ last'.p = p
                    /\ last'.arg.message.id = x
                    /\ _pending_service_requests'[p][x]
                          = Entry(Cont(serial', "callback", "nothing"),
                                  Cont(serial', "errback", "nothing"))
                    /\ serial' = serial + 1
                 \/ /\ last'.op = "onMessage"
                    /\ last'.p = p
                    /\ ResponseWithId(last'.arg)
                    /\ last'.arg.msg.id = x
                    /\ _pending_service_requests[p][x].present
                    /\ ~_pending_service_requests'[p][x].present
        /\ last'.op \notin {"send_ros_service_request:register", "onMessage"}
           => _pending_service_requests' = _pending_service_requests
        /\ (last'.op = "onMessage" /\ ~ResponseWithId(last'.arg))
           => _pending_service_requests' = _pending_service_requests
        /\ (last'.op = "onMessage" /\ ResponseWithId(last'.arg))
           => \A i \in DOMAIN ContsOf(last'.trace) :
                 ContsOf(last'.trace)[i].who
                    \in {_pending_service_requests[last'.p][last'.arg.msg.id].callback,
                         _pending_service_requests[last'.p][last'.arg.msg.id].errback}
      ]_vars

\* C20 witness: two requests were made with ids 1 and 2; the response for 2
\* was processed first, and the response for 1 then invoked a continuation
\* of the first request
C20_Witness ==
    /\ last.op = "onMessage"
    /\ ResponseWithId(last.arg)
    /\ last.arg.msg.id = 1
    /\ ContsOf(last.trace) # <<>>
    /\ ContsOf(last.trace)[1].who.req = 1
    /\ serial = 2
    /\ registered[last.p][2] = 1
    /\ invoked[last.p][2] = 1
    /\ invoked[last.p][1] = 1

====
